---- MODULE Spec2Model ----
(***************************************************************************)
(* Model of app.py of TimeZoneWebservice: the alias registry CODE_TO_TZ,   *)
(* zone resolution (_resolve_tz), the offset formatter (fmt_offset), the   *)
(* comparator (difference), current_time_in_zone and the /api/compare      *)
(* handler (api_compare).                                                  *)
(*                                                                         *)
(* Time is in seconds.  An instant is a count of seconds since the Unix    *)
(* epoch; a wall-clock reading is the same count taken on the local        *)
(* calendar.  A datetime is a record [wall, fold, tz] as in Python: the    *)
(* naive wall-clock fields, the PEP 495 fold bit and the tzinfo object.    *)
(* A UTC offset (timedelta) is a signed number of seconds.                 *)
(***************************************************************************)
EXTENDS Integers, Sequences, FiniteSets, TLC

VARIABLES CODE_TO_TZ, pc, now, req, res

vars == <<CODE_TO_TZ, pc, now, req, res>>

(***************************************************************************)
(* Bounds and program constants.                                           *)
(***************************************************************************)
\* number of times the wall clock advances during a run
MaxTicks == 2

\* range(-12, 15) of _build_code_map
RangeStart == -12
RangeStop == 15

\* first wall-clock reading (2026-01-15 12:00:00 UTC) and the step between
\* readings (167 days: 2026-07-01 12:00, 2026-12-15 12:00, ...)
NowBase == (20468 * 86400) + 43200
NowStep == 167 * 86400

Abs(x) == IF x < 0 THEN -x ELSE x

SetMax(S) == CHOOSE x \in S : \A y \in S : y <= x

\* a local name bound to the value of an expression that is evaluated once:
\* Bind(e, LAMBDA x : F(x)) is F(x) with x = e
Bind(e, F(_)) == CHOOSE r \in {F(x) : x \in {e}} : TRUE

\* format spec 02d for a non-negative integer
Pad2(n) == IF n < 10 THEN "0" \o ToString(n) ELSE ToString(n)

\* format spec +03d: sign always, zero-padded to width 3 including the sign
SignedPad3(n) == (IF n < 0 THEN "-" ELSE "+") \o Pad2(Abs(n))

(***************************************************************************)
(* tzinfo objects.                                                         *)
(***************************************************************************)
\* datetime.timezone(timedelta(seconds=offset), name)
FixedTz(offset, name) == [kind |-> "fixed", offset |-> offset, name |-> name]

\* datetime.timezone.utc
TzUtc == FixedTz(0, "UTC")

\* the zoneinfo.ZoneInfo object of a key (one cached object per key)
IanaTz(key) == [kind |-> "iana", key |-> key]

(***************************************************************************)
(* The registry.                                                           *)
(***************************************************************************)
\* dict item assignment d[k] = v
Put(d, k, v) == [x \in (DOMAIN d) \cup {k} |-> IF x = k THEN v ELSE d[x]]

\* name = f"UTC{h:+03d}:00"
code_name(h) == "UTC" \o SignedPad3(h) \o ":00"

\* build_loop_body without the "if h == 0: continue"
build_loop_body_nozero(d, h) ==
    Put(d, code_name(h), FixedTz(h * 3600, code_name(h)))

\* one iteration of the for loop of _build_code_map
build_loop_body(d, h) ==
    IF h = 0 THEN d
    ELSE Put(d, code_name(h), FixedTz(h * 3600, code_name(h)))

RECURSIVE build_loop(_, _)
\* for h in range(RangeStart, RangeStop), from h on
build_loop(d, h) ==
    IF h >= RangeStop THEN d
    ELSE build_loop(build_loop_body(d, h), h + 1)

\* the "common aliases" assignments, in source order
build_aliases(d) ==
    LET d1  == Put(d,   "UTC",  TzUtc)
        d2  == Put(d1,  "GMT",  TzUtc)
        d3  == Put(d2,  "CET",  FixedTz(1 * 3600, "CET"))
        d4  == Put(d3,  "CEST", FixedTz(2 * 3600, "CEST"))
        d5  == Put(d4,  "EST",  FixedTz(-5 * 3600, "EST"))
        d6  == Put(d5,  "EDT",  FixedTz(-4 * 3600, "EDT"))
        d7  == Put(d6,  "CST",  FixedTz(-6 * 3600, "CST"))
        d8  == Put(d7,  "CDT",  FixedTz(-5 * 3600, "CDT"))
        d9  == Put(d8,  "MST",  FixedTz(-7 * 3600, "MST"))
        d10 == Put(d9,  "MDT",  FixedTz(-6 * 3600, "MDT"))
        d11 == Put(d10, "PST",  FixedTz(-8 * 3600, "PST"))
        d12 == Put(d11, "PDT",  FixedTz(-7 * 3600, "PDT"))
        d13 == Put(d12, "BST",  FixedTz(1 * 3600, "BST"))
    IN  Put(d13, "IST", FixedTz((5 * 3600) + (30 * 60), "IST"))

\* _build_code_map() applied to the dict d
build_code_map(d) == build_aliases(build_loop(d, RangeStart))

\* CODE_TO_TZ: dict[str, timezone] = {}
EmptyDict == [x \in {} |-> TzUtc]

(***************************************************************************)
(* The IANA time-zone database behind zoneinfo.ZoneInfo (tzdata 2023c).    *)
(* Each zone is its first offset and its transitions (UTC instant, offset  *)
(* and abbreviation from then on).  The extract is exact for instants      *)
(* before 1911-03-10 23:50:39 UTC and from 2025-10-26 01:00 UTC to the end *)
(* of 2027, which is where every instant of the model lies; the            *)
(* transitions in between are left out.  No offset of the extract has a    *)
(* 30-second part, so no difference of two offsets is an exact half        *)
(* minute (where the binary floating point of difference decides the       *)
(* rounding).                                                              *)
(***************************************************************************)
Trans(at, off, abbr) == [at |-> at, off |-> off, abbr |-> abbr]

EuTransitions ==
    << Trans(1774746000, 7200, "CEST"),    \* 2026-03-29 01:00 UTC
       Trans(1792890000, 3600, "CET"),     \* 2026-10-25 01:00 UTC
       Trans(1806195600, 7200, "CEST"),    \* 2027-03-28 01:00 UTC
       Trans(1824944400, 3600, "CET") >>   \* 2027-10-31 01:00 UTC

ZoneInfoDB ==
    [key \in {"Europe/Paris", "America/Manaus", "CET"} |->
        CASE key = "Europe/Paris" ->
                [off |-> 561, abbr |-> "PMT",
                 trans |-> << Trans(-1855958961, 0, "WET"),     \* 1911-03-10 23:50:39 UTC
                              Trans(1761440400, 3600, "CET") >> \* 2025-10-26 01:00 UTC
                           \o EuTransitions]
          [] key = "America/Manaus" ->
                [off |-> -14404, abbr |-> "LMT",
                 trans |-> << Trans(-1767211196, -14400, "-04") >>] \* 1914-01-01 04:00:04 UTC
          [] key = "CET" ->
                [off |-> 3600, abbr |-> "CET", trans |-> EuTransitions]]

\* keys that zoneinfo rejects with ValueError before any lookup: absolute
\* paths, non-normalized paths, paths leaving the database directory
MalformedKeys == {"", "/etc/passwd", "../x"}

\* ZoneInfo(key): the zone object, or the exception the constructor raises
ZoneInfo(key) ==
    IF key \in MalformedKeys THEN [err |-> "ValueError", arg |-> key]
    ELSE IF key \in DOMAIN ZoneInfoDB THEN [err |-> "none", tz |-> IanaTz(key)]
    ELSE [err |-> "ZoneInfoNotFoundError", arg |-> key]

\* offset before transition i of zone z
OffBefore(z, i) == IF i = 1 THEN z.off ELSE z.trans[i - 1].off

\* the local time at which transition i takes effect for readings with the
\* given fold: readings in a gap or in the first pass of a repeated hour
\* (fold 0) still belong to the old offset
TransWall(z, i, fold) ==
    LET before == OffBefore(z, i)
        after  == z.trans[i].off
        hi     == IF before > after THEN before ELSE after
        lo     == IF before > after THEN after ELSE before
    IN  z.trans[i].at + (IF fold = 0 THEN hi ELSE lo)

\* index of the last transition at or before UTC instant u (0: none)
IdxAtUtc(z, u) ==
    LET S == {i \in 1..Len(z.trans) : z.trans[i].at <= u}
    IN  IF S = {} THEN 0 ELSE SetMax(S)

\* index of the last transition in effect at local reading (wall, fold)
IdxAtWall(z, wall, fold) ==
    LET S == {i \in 1..Len(z.trans) : TransWall(z, i, fold) <= wall}
    IN  IF S = {} THEN 0 ELSE SetMax(S)

OffAt(z, i) == IF i = 0 THEN z.off ELSE z.trans[i].off
AbbrAt(z, i) == IF i = 0 THEN z.abbr ELSE z.trans[i].abbr

(***************************************************************************)
(* datetime objects.                                                       *)
(***************************************************************************)
DateTime(wall, fold, tz) == [wall |-> wall, fold |-> fold, tz |-> tz]

\* dt.utcoffset()
utcoffset(dt) ==
    IF dt.tz.kind = "fixed" THEN dt.tz.offset
    ELSE LET z == ZoneInfoDB[dt.tz.key]
         IN  OffAt(z, IdxAtWall(z, dt.wall, dt.fold))

\* dt.tzname()
tzname(dt) ==
    IF dt.tz.kind = "fixed" THEN dt.tz.name
    ELSE LET z == ZoneInfoDB[dt.tz.key]
         IN  AbbrAt(z, IdxAtWall(z, dt.wall, dt.fold))

\* tz.fromutc: the datetime in tz of UTC instant u
fromutc(tz, u) ==
    IF tz.kind = "fixed" THEN DateTime(u + tz.offset, 0, tz)
    ELSE LET z     == ZoneInfoDB[tz.key]
             i     == IdxAtUtc(z, u)
             shift == IF i = 0 THEN 0 ELSE OffBefore(z, i) - z.trans[i].off
             fold  == IF i > 0 /\ shift > 0 /\ u < z.trans[i].at + shift
                      THEN 1 ELSE 0
         IN  DateTime(u + OffAt(z, i), fold, tz)

\* dt.astimezone(tz): a no-op when tz is dt's own tzinfo object, otherwise
\* through UTC
astimezone(dt, tz) ==
    IF dt.tz = tz THEN dt ELSE fromutc(tz, dt.wall - utcoffset(dt))

\* datetime.now(tz=timezone.utc) when the wall clock reads t
now_utc(t) == DateTime(t, 0, TzUtc)

\* dt.strftime("%Y-%m-%d %H:%M"): the wall-clock reading cut to the minute
\* (the count of whole minutes stands for the rendered calendar minute)
strftime_minute(dt) == dt.wall \div 60

(***************************************************************************)
(* Zone resolution and offset formatting.                                  *)
(***************************************************************************)
\* _resolve_tz trying the IANA database before the alias table
_resolve_tz_iana_first(d, tz_name) ==
    IF tz_name \notin MalformedKeys /\ tz_name \in DOMAIN ZoneInfoDB
    THEN [err |-> "none", tz |-> IanaTz(tz_name)]
    ELSE IF tz_name \in DOMAIN d THEN [err |-> "none", tz |-> d[tz_name]]
    ELSE LET z == ZoneInfo(tz_name)
         IN  IF z.err = "ZoneInfoNotFoundError"
             THEN [err |-> "KeyError", arg |-> tz_name]
             ELSE z

\* _resolve_tz(tz_name) against the registry d: [err |-> "none", tz |-> ...]
\* or the exception that leaves the function.  Only ZoneInfoNotFoundError
\* is caught and re-raised as KeyError(tz_name).
_resolve_tz(d, tz_name) ==
    IF tz_name \in DOMAIN d THEN [err |-> "none", tz |-> d[tz_name]]
    ELSE LET z == ZoneInfo(tz_name)
         IN  IF z.err = "ZoneInfoNotFoundError"
             THEN [err |-> "KeyError", arg |-> tz_name]
             ELSE z

\* _resolve_tz storing a zone it loaded in the registry
after_resolve_tz_cache(d, tz_name) ==
    IF tz_name \notin DOMAIN d /\ ZoneInfo(tz_name).err = "none"
    THEN Put(d, tz_name, ZoneInfo(tz_name).tz)
    ELSE d

\* the registry after _resolve_tz(tz_name): CODE_TO_TZ.get only reads
after_resolve_tz(d, tz_name) == d

\* format_offset with the sign test > 0 in place of >= 0
format_offset_strict_sign(offset) ==
    LET total_minutes == offset \div 60
        sign          == IF total_minutes > 0 THEN "+" ELSE "-"
        abs_minutes   == Abs(total_minutes)
    IN  sign \o Pad2(abs_minutes \div 60) \o ":" \o Pad2(abs_minutes % 60)

\* lines 48-51 of fmt_offset: floor to whole minutes, sign, abs, HH:MM
format_offset(offset) ==
    LET total_minutes == offset \div 60
        sign          == IF total_minutes >= 0 THEN "+" ELSE "-"
        abs_minutes   == Abs(total_minutes)
    IN  sign \o Pad2(abs_minutes \div 60) \o ":" \o Pad2(abs_minutes % 60)

\* fmt_offset(tz) when the wall clock reads t: the offset is that of
\* datetime.now(tz), whatever instant the caller is working on
fmt_offset(tz, t) == format_offset(utcoffset(fromutc(tz, t)))

\* current_time_in_zone(tz_name) when the wall clock reads t
current_time_in_zone(d, tz_name, t) ==
    LET r == _resolve_tz(d, tz_name)
    IN  IF r.err # "none" THEN r
        ELSE LET dt == astimezone(now_utc(t), r.tz)
             IN  [err    |-> "none",
                  zone   |-> tz_name,
                  now    |-> dt,
                  offset |-> fmt_offset(r.tz, t),
                  abbr   |-> tzname(dt)]

(***************************************************************************)
(* The comparator.  delta is kept as the exact number of seconds           *)
(* offset_b - offset_a; the source's float is that number / 3600.          *)
(***************************************************************************)
\* sign = 1 if delta > 0 else -1 if delta < 0 else 0
difference_sign(delta) == IF delta > 0 THEN 1 ELSE IF delta < 0 THEN -1 ELSE 0

\* h = int(abs(delta))
difference_h(delta) == Abs(delta) \div 3600

\* m = int(round((abs(delta) - h) * 60)): the seconds left over after the
\* whole hours, rounded to the nearest minute (Python rounds an exact half
\* to the even neighbour), with no carry into h
difference_m(delta) ==
    LET r == Abs(delta) % 3600
        q == r \div 60
        s == r % 60
    IN  IF s < 30 THEN q
        ELSE IF s > 30 THEN q + 1
        ELSE IF q % 2 = 0 THEN q ELSE q + 1

\* "minutes" without the sign
difference_minutes_unsigned(sign, m) == m

\* "minutes": sign * m
difference_minutes(sign, m) == sign * m

\* "pretty": f"{('+' if delta >= 0 else '-')}{h:01d}h {m:02d}m"
difference_pretty(delta, h, m) ==
    (IF delta >= 0 THEN "+" ELSE "-") \o ToString(h) \o "h " \o Pad2(m) \o "m"

\* a Python None argument
None == [kind |-> "None"]

\* difference(tz_a, tz_b, at) when the wall clock reads t
difference(d, tz_a, tz_b, at, t) ==
    LET at1 == IF at = None THEN now_utc(t) ELSE at
        ra  == _resolve_tz(d, tz_a)
        rb  == _resolve_tz(d, tz_b)
    IN  IF ra.err # "none" THEN ra
        ELSE IF rb.err # "none" THEN rb
        ELSE
        LET a          == astimezone(at1, ra.tz)
            b          == astimezone(at1, rb.tz)
            offset_a   == utcoffset(a)
            offset_b   == utcoffset(b)
            delta      == offset_b - offset_a
            sign       == difference_sign(delta)
            h          == difference_h(delta)
            m          == difference_m(delta)
            pretty_abs == ToString(h) \o "h " \o Pad2(m) \o "m"
            direction  == IF sign > 0 THEN "ahead of"
                          ELSE IF sign < 0 THEN "behind"
                          ELSE "the same time as"
            description ==
                IF sign = 0
                THEN tz_b \o " is the same time as " \o tz_a
                ELSE tz_b \o " is " \o pretty_abs \o " " \o direction
                          \o " " \o tz_a
        IN  [err         |-> "none",
             a           |-> a,
             b           |-> b,
             hours       |-> sign * h,
             minutes     |-> difference_minutes(sign, m),
             pretty      |-> difference_pretty(delta, h, m),
             direction   |-> direction,
             pretty_abs  |-> pretty_abs,
             description |-> description]

(***************************************************************************)
(* GET /api/compare.  A query parameter that is absent (None) or empty is  *)
(* the string "": both are falsy for Python's or.  The time parameter is   *)
(* the naive datetime that fromisoformat parses from it, given as its      *)
(* wall-clock reading.                                                     *)
(***************************************************************************)
NoTime == [given |-> FALSE, wall |-> 0]
TimeArg(wall) == [given |-> TRUE, wall |-> wall]

\* x or default
OrDefault(x, default) == IF x = "" THEN default ELSE x

\* api_compare reading the time parameter as UTC and converting to my_tz
api_compare_dt_utc(tz, time, t) ==
    IF time.given THEN astimezone(DateTime(time.wall, 0, TzUtc), tz)
    ELSE astimezone(now_utc(t), tz)

\* the datetime dt of api_compare (lines 117-120), tz being the resolved my_tz
api_compare_dt(tz, time, t) ==
    IF time.given THEN DateTime(time.wall, 0, tz)
    ELSE astimezone(now_utc(t), tz)

\* api_compare() for the query parameters args when the wall clock reads t;
\* diff is the handler's local variable, kept beside the JSON body
api_compare(d, args, t) ==
    LET my_tz    == OrDefault(args.my_tz, "UTC")
        other_tz == OrDefault(args.other_tz, "UTC+01:00")
        rm       == _resolve_tz(d, my_tz)
    IN  IF rm.err # "none" THEN rm
        ELSE
        Bind(api_compare_dt(rm.tz, args.time, t), LAMBDA dt :
        Bind(difference(d, my_tz, other_tz, dt, t), LAMBDA diff :
            IF diff.err # "none" THEN diff
            ELSE [err  |-> "none",
                  diff |-> diff,
                  json |-> [my_time      |-> strftime_minute(diff.a),
                            other_time   |-> strftime_minute(diff.b),
                            my_offset    |-> fmt_offset(rm.tz, t),
                            other_offset |-> fmt_offset(_resolve_tz(d, other_tz).tz, t),
                            pretty       |-> diff.pretty,
                            description  |-> diff.description]]))

(***************************************************************************)
(* The program: module import builds the registry, then calls are served  *)
(* one at a time while the wall clock advances.  While pc = "returned",    *)
(* req is the call just made, with its arguments and the clock reading t   *)
(* it ran at, and res is what it returned or raised; Return hands the      *)
(* result to the caller and the program waits for the next call.           *)
(***************************************************************************)
\* zone codes callers supply: every registered alias, IANA names, an
\* unknown name and a malformed one
ArgCodes ==
    (DOMAIN CODE_TO_TZ)
        \cup {"Europe/Paris", "America/Manaus", "Not/AZone", "/etc/passwd"}

\* values of the my_tz and other_tz query parameters: a zone code, or ""
\* for a parameter that is absent or empty
QueryCodes == ArgCodes \cup {""}

\* instants passed to difference as at (aware datetimes in UTC), or None
AtValues ==
    {None} \cup { now_utc(u) : u \in { -2051222400,    \* 1905-01-01 00:00
                                       1782907200,     \* 2026-07-01 12:00
                                       1792888200,     \* 2026-10-25 00:30
                                       1792891800 } }  \* 2026-10-25 01:30

\* time parameters of /api/compare: absent, or a naive local date and time
TimeValues ==
    {NoTime} \cup { TimeArg(w) : w \in { -2051222400,    \* 1905-01-01 00:00
                                         1768464000,     \* 2026-01-15 08:00
                                         1774751400,     \* 2026-03-29 02:30
                                         1782907230,     \* 2026-07-01 12:00:30
                                         1792895400 } }  \* 2026-10-25 02:30

\* whole-minute offsets handed to fmt_offset as synthetic fixed zones
OffsetMinutes == (RangeStart * 60) .. ((RangeStop - 1) * 60)

Init ==
    /\ CODE_TO_TZ = EmptyDict
    /\ pc = "import"
    /\ now = NowBase
    /\ req = [op |-> "none"]
    /\ res = [err |-> "none"]

\* line 35: _build_code_map() at import
Startup ==
    /\ pc = "import"
    /\ CODE_TO_TZ' = build_code_map(CODE_TO_TZ)
    /\ pc' = "serving"
    /\ UNCHANGED <<now, req, res>>

\* the wall clock moves on
Tick ==
    /\ pc = "serving"
    /\ now < NowBase + (MaxTicks * NowStep)
    /\ now' = now + NowStep
    /\ UNCHANGED <<CODE_TO_TZ, pc, req, res>>

Resolve ==
    /\ pc = "serving"
    /\ \E tz_name \in ArgCodes :
        /\ req' = [op |-> "_resolve_tz", tz_name |-> tz_name, t |-> now]
        /\ res' = _resolve_tz(CODE_TO_TZ, tz_name)
        /\ CODE_TO_TZ' = after_resolve_tz(CODE_TO_TZ, tz_name)
    /\ UNCHANGED now
    /\ pc' = "returned"

FmtOffset ==
    /\ pc = "serving"
    /\ \E k \in OffsetMinutes :
        /\ req' = [op |-> "fmt_offset", minutes |-> k, t |-> now]
        /\ res' = [err |-> "none", out |-> fmt_offset(FixedTz(k * 60, ""), now)]
    /\ UNCHANGED <<CODE_TO_TZ, now>>
    /\ pc' = "returned"

CurrentTimeInZone ==
    /\ pc = "serving"
    /\ \E tz_name \in ArgCodes :
        /\ req' = [op |-> "current_time_in_zone", tz_name |-> tz_name, t |-> now]
        /\ res' = current_time_in_zone(CODE_TO_TZ, tz_name, now)
        /\ CODE_TO_TZ' = after_resolve_tz(CODE_TO_TZ, tz_name)
    /\ UNCHANGED now
    /\ pc' = "returned"

Difference ==
    /\ pc = "serving"
    /\ \E tz_a \in ArgCodes, tz_b \in ArgCodes, at \in AtValues :
        /\ req' = [op |-> "difference", tz_a |-> tz_a, tz_b |-> tz_b,
                   at |-> at, t |-> now]
        /\ res' = difference(CODE_TO_TZ, tz_a, tz_b, at, now)
        /\ CODE_TO_TZ' =
              after_resolve_tz(after_resolve_tz(CODE_TO_TZ, tz_a), tz_b)
    /\ UNCHANGED now
    /\ pc' = "returned"

ApiCompare ==
    /\ pc = "serving"
    /\ \E my_tz \in QueryCodes, other_tz \in QueryCodes, time \in TimeValues :
        LET args == [my_tz |-> my_tz, other_tz |-> other_tz, time |-> time]
        IN  /\ req' = [op |-> "api_compare", args |-> args, t |-> now]
            /\ res' = api_compare(CODE_TO_TZ, args, now)
            /\ CODE_TO_TZ' =
                  after_resolve_tz(
                      after_resolve_tz(CODE_TO_TZ, OrDefault(my_tz, "UTC")),
                      OrDefault(other_tz, "UTC+01:00"))
    /\ UNCHANGED now
    /\ pc' = "returned"

\* the result reaches the caller
Return ==
    /\ pc = "returned"
    /\ pc' = "serving"
    /\ req' = [op |-> "none"]
    /\ res' = [err |-> "none"]
    /\ UNCHANGED <<CODE_TO_TZ, now>>

Next ==
    \/ Startup
    \/ Tick
    \/ Resolve
    \/ FmtOffset
    \/ CurrentTimeInZone
    \/ Difference
    \/ ApiCompare
    \/ Return

Spec == Init /\ [][Next]_vars

(***************************************************************************)
(* Properties.                                                             *)
(***************************************************************************)
Returned(op) == pc = "returned" /\ req.op = op

\* the registry as import leaves it
StartupTable == build_code_map(EmptyDict)

\* a code that is neither an alias nor a zone of the IANA database
Unresolvable(code) ==
    code \notin DOMAIN CODE_TO_TZ /\ code \notin DOMAIN ZoneInfoDB

\* |delta| seconds as hours and minutes, to the nearest minute, carrying
\* sixty minutes into the hours: "{h}h {mm}m"
HoursMinutes(delta) ==
    LET total == (Abs(delta) + 30) \div 60
    IN  ToString(total \div 60) \o "h " \o Pad2(total % 60) \o "m"

\* the sentence the comparator is to produce for codes a, b whose offsets
\* differ by delta = offsetB - offsetA seconds
Sentence(a, b, delta) ==
    IF delta = 0 THEN b \o " is the same time as " \o a
    ELSE IF delta > 0 THEN b \o " is " \o HoursMinutes(delta) \o " ahead of " \o a
    ELSE b \o " is " \o HoursMinutes(delta) \o " behind " \o a

\* C1: the description of compare(A, B, t) is "B is the same time as A"
\* exactly when the two offsets at t are equal, and otherwise "B is {h}h
\* {mm}m ahead of A" or "... behind A" according to the sign of offsetB -
\* offsetA, h and mm being the hours and minutes of the absolute
\* difference; compare(B, A, t) has the same h and mm.
C1_DescriptionOfBRelativeToA ==
    (Returned("difference") /\ res.err = "none") =>
        LET delta  == utcoffset(res.b) - utcoffset(res.a)
            mirror == difference(CODE_TO_TZ, req.tz_b, req.tz_a, req.at, req.t)
        IN  /\ res.description = Sentence(req.tz_a, req.tz_b, delta)
            /\ mirror.description = Sentence(req.tz_b, req.tz_a, -delta)

\* C2: in every result of compare the minutes component is between 0 and
\* 59: sixty minutes are carried into the hours.
C2_MinutesBelowSixty ==
    /\ (Returned("difference") /\ res.err = "none") =>
            Abs(res.minutes) \in 0..59
    /\ (Returned("api_compare") /\ res.err = "none") =>
            Abs(res.diff.minutes) \in 0..59

DigitChars == <<"0", "1", "2", "3", "4", "5", "6", "7", "8", "9">>

\* sign, two hour digits, ':', two minute digits of a whole-minute offset
SixChars(minutes) ==
    LET hh == Abs(minutes) \div 60
        mm == Abs(minutes) % 60
    IN  (IF minutes >= 0 THEN "+" ELSE "-")
            \o DigitChars[(hh \div 10) + 1] \o DigitChars[(hh % 10) + 1]
            \o ":"
            \o DigitChars[(mm \div 10) + 1] \o DigitChars[(mm % 10) + 1]

\* C3: for every whole-minute offset in [-720, +840] formatOffset returns
\* the 6 characters sign, HH, ':', MM with sign '+' for offsets >= 0 and
\* '-' otherwise, HH = |offset| div 60, MM = |offset| mod 60; offset 0
\* gives "+00:00".
C3_FormatOffsetSixChars ==
    Returned("fmt_offset") =>
        /\ res.err = "none"
        /\ Len(res.out) = 6
        /\ res.out = SixChars(req.minutes)
        /\ (req.minutes = 0 => res.out = "+00:00")

C3_Witness ==
    /\ Returned("fmt_offset")
    /\ req.minutes = -330
    /\ res.out = "-05:30"

\* C4: a zone code that is neither an alias nor a loadable IANA identifier
\* makes resolve, currentTime and compare fail with KeyError carrying that
\* code, and resolution produces no other kind of error.
C4_OnlyUnknownZoneError ==
    pc = "returned" =>
        /\ res.err \in {"none", "KeyError"}
        /\ (req.op \in {"_resolve_tz", "current_time_in_zone"}
                /\ Unresolvable(req.tz_name)) =>
              res = [err |-> "KeyError", arg |-> req.tz_name]
        /\ (req.op = "difference"
                /\ (Unresolvable(req.tz_a) \/ Unresolvable(req.tz_b))) =>
              /\ res.err = "KeyError"
              /\ res.arg \in {req.tz_a, req.tz_b}
              /\ Unresolvable(res.arg)
        /\ (req.op = "api_compare"
                /\ (Unresolvable(OrDefault(req.args.my_tz, "UTC"))
                    \/ Unresolvable(OrDefault(req.args.other_tz, "UTC+01:00")))) =>
              /\ res.err = "KeyError"
              /\ res.arg \in {req.args.my_tz, req.args.other_tz}
              /\ Unresolvable(res.arg)

\* C5: the formatted offsets reported with a comparison are the offsets of
\* zones A and B at the compared instant, the ones the difference is
\* computed from.
C5_ReportedOffsetsAtComparedInstant ==
    (Returned("api_compare") /\ res.err = "none") =>
        /\ res.json.my_offset = format_offset(utcoffset(res.diff.a))
        /\ res.json.other_offset = format_offset(utcoffset(res.diff.b))

\* instants at which a zone's offset is probed: 1905-01-01, 2026-01-15,
\* 2026-07-01 (all 12:00 UTC or 00:00 UTC)
ProbeInstants == {-2051222400, 1768478400, 1782907200}

\* C6: for every code of the alias table resolve returns the table's
\* fixed-offset zone, also when the code names an IANA zone, so the offset
\* is the same at any two instants and is the one reported at any clock
\* reading.
C6_AliasIsFixedOffset ==
    /\ (Returned("_resolve_tz") /\ req.tz_name \in DOMAIN CODE_TO_TZ) =>
          /\ res = [err |-> "none", tz |-> CODE_TO_TZ[req.tz_name]]
          /\ res.tz.kind = "fixed"
          /\ \A u1 \in ProbeInstants, u2 \in ProbeInstants :
                utcoffset(fromutc(res.tz, u1)) = utcoffset(fromutc(res.tz, u2))
    /\ (Returned("current_time_in_zone") /\ req.tz_name \in DOMAIN CODE_TO_TZ) =>
          /\ res.err = "none"
          /\ utcoffset(res.now) = StartupTable[req.tz_name].offset
          /\ res.offset = format_offset(StartupTable[req.tz_name].offset)

C6_Witness ==
    /\ Returned("current_time_in_zone")
    /\ req.tz_name = "CET"
    /\ req.t = NowBase + NowStep
    /\ res.offset = "+01:00"
    /\ utcoffset(fromutc(IanaTz("CET"), req.t)) = 7200

\* C7: an explicit timestamp of the comparison read is wall-clock time in
\* zone A: the reported time of A is the timestamp to the minute and the
\* reported time of B is the timestamp shifted by offsetB - offsetA; with
\* no zone codes supplied A is "UTC" and B is "UTC+01:00".
C7_TimestampIsWallClockInA ==
    /\ (Returned("api_compare") /\ res.err = "none" /\ req.args.time.given) =>
          /\ res.json.my_time = req.args.time.wall \div 60
          /\ res.json.other_time =
                (req.args.time.wall + utcoffset(res.diff.b)
                    - utcoffset(res.diff.a)) \div 60
    /\ (Returned("api_compare") /\ req.args.my_tz = "" /\ req.args.other_tz = "") =>
          /\ res.err = "none"
          /\ res.diff.a.tz = TzUtc
          /\ res.diff.b.tz = FixedTz(3600, "UTC+01:00")
          /\ res.json.description = "UTC+01:00 is 1h 00m ahead of UTC"
          /\ res.json.other_time = res.json.my_time + 60

C7_Witness ==
    /\ Returned("api_compare")
    /\ req.args = [my_tz |-> "Europe/Paris", other_tz |-> "IST",
                   time |-> TimeArg(1774751400)]
    /\ res.json.my_time = 1774751400 \div 60
    /\ res.json.other_time = (1774751400 \div 60) + 270

\* keys of the whole-hour aliases, hour k at index k + 13
HourKeys ==
    << "UTC-12:00", "UTC-11:00", "UTC-10:00", "UTC-09:00", "UTC-08:00",
       "UTC-07:00", "UTC-06:00", "UTC-05:00", "UTC-04:00", "UTC-03:00",
       "UTC-02:00", "UTC-01:00", "UTC+00:00", "UTC+01:00", "UTC+02:00",
       "UTC+03:00", "UTC+04:00", "UTC+05:00", "UTC+06:00", "UTC+07:00",
       "UTC+08:00", "UTC+09:00", "UTC+10:00", "UTC+11:00", "UTC+12:00",
       "UTC+13:00", "UTC+14:00" >>

CuratedKeys ==
    {"UTC", "GMT", "CET", "CEST", "EST", "EDT", "CST", "CDT", "MST", "MDT",
     "PST", "PDT", "BST", "IST"}

\* C8: after startup the alias table has, for every whole hour k from -12
\* to +14 except 0, the key "UTC{sign}{hh}:00" bound to a fixed offset of
\* k*60 minutes, the 14 curated abbreviations each bound to one fixed
\* offset (UTC = GMT = 0, IST = +330 minutes), and no other key: 40 keys,
\* none of them "UTC+00:00".
C8_AliasTableContents ==
    pc # "import" =>
        /\ DOMAIN CODE_TO_TZ =
              {HourKeys[k + 13] : k \in (-12..14) \ {0}} \cup CuratedKeys
        /\ Cardinality(DOMAIN CODE_TO_TZ) = 40
        /\ "UTC+00:00" \notin DOMAIN CODE_TO_TZ
        /\ \A k \in (-12..14) \ {0} :
              /\ CODE_TO_TZ[HourKeys[k + 13]].kind = "fixed"
              /\ CODE_TO_TZ[HourKeys[k + 13]].offset = k * 60 * 60
        /\ \A c \in CuratedKeys : CODE_TO_TZ[c].kind = "fixed"
        /\ CODE_TO_TZ["UTC"].offset = 0
        /\ CODE_TO_TZ["GMT"].offset = 0
        /\ CODE_TO_TZ["IST"].offset = 330 * 60

C8_Witness ==
    /\ pc = "serving"
    /\ CODE_TO_TZ["UTC-12:00"].offset = -43200
    /\ CODE_TO_TZ["UTC+14:00"].offset = 50400
    /\ CODE_TO_TZ["IST"].offset = 19800

\* what the call r returns when it runs against the registry d
ResultOf(d, r) ==
    CASE r.op = "_resolve_tz" -> _resolve_tz(d, r.tz_name)
      [] r.op = "fmt_offset" ->
            [err |-> "none", out |-> fmt_offset(FixedTz(r.minutes * 60, ""), r.t)]
      [] r.op = "current_time_in_zone" ->
            current_time_in_zone(d, r.tz_name, r.t)
      [] r.op = "difference" -> difference(d, r.tz_a, r.tz_b, r.at, r.t)
      [] r.op = "api_compare" -> api_compare(d, r.args, r.t)

\* C9: once startup has finished no operation, succeeding or failing,
\* changes the alias table, and each operation's result is the one its
\* arguments, the instant and the startup table determine.
C9_RegistryImmutable ==
    [][pc # "import" =>
          /\ CODE_TO_TZ' = CODE_TO_TZ
          /\ CODE_TO_TZ' = StartupTable
          /\ (pc' = "returned" => res' = ResultOf(StartupTable, req'))]_vars

C9_Witness ==
    /\ Returned("difference")
    /\ req.tz_a = "Europe/Paris"
    /\ req.tz_b = "Not/AZone"
    /\ res = [err |-> "KeyError", arg |-> "Not/AZone"]
    /\ now > NowBase
    /\ CODE_TO_TZ = StartupTable

\* C10: when both offsets are whole minutes, signedHours * 60 +
\* signedMinutes is offsetB - offsetA in minutes, signedHours and
\* signedMinutes never have opposite signs, and the pretty string starts
\* with '-' exactly when offsetB < offsetA and with '+' otherwise.
C10_SignedComponentsReconstruct ==
    (Returned("difference") /\ res.err = "none"
        /\ utcoffset(res.a) % 60 = 0 /\ utcoffset(res.b) % 60 = 0) =>
        LET delta == utcoffset(res.b) - utcoffset(res.a)
        IN  /\ (res.hours * 60) + res.minutes = delta \div 60
            /\ res.hours * res.minutes >= 0
            /\ ~(res.hours > 0 /\ res.minutes < 0)
            /\ ~(res.hours < 0 /\ res.minutes > 0)
            /\ SubSeq(res.pretty, 1, 1) = (IF delta < 0 THEN "-" ELSE "+")

C10_Witness ==
    /\ Returned("difference")
    /\ req.tz_a = "IST"
    /\ req.tz_b = "UTC-07:00"
    /\ res.hours = -12
    /\ res.minutes = -30
    /\ res.pretty = "-12h 30m"

====
